---- MODULE Spec2Model ----
(***************************************************************************)
(* Phase 1.1 data collection (Assignment_2/phase_1/1_collect_data.py) and  *)
(* the schema validation helper (Assignment_2/utils.py,                    *)
(* Assignment_2/dataset_schema.py, Assignment_2/test_dataset_schema.py).   *)
(*                                                                         *)
(* Text is a tuple of one-character strings, so that lower(), substring    *)
(* search, strip() and split()/join() are computed and not assumed.       *)
(* A table is a sequence of rows (records); the external services (the     *)
(* price provider, the web) answer nondeterministically.                   *)
(***************************************************************************)
EXTENDS Integers, Sequences, FiniteSets, TLC

VARIABLES
    entry,        \* the function the run was started at
    pc,           \* position of the running code
    exists,       \* input file name -> whether os.path.exists finds it
    csv,          \* input file name -> its content [cols, rows]
    symbols,      \* main: the symbols handed to download_historical_prices
    all_symbols,  \* download_historical_prices: the symbols to fetch, in order
    all_data,     \* download_historical_prices: the frames collected so far
    prices_df,    \* download_historical_prices: the table returned
    fetchLog,     \* every ticker.history call so far: [symbol, bars, error]
    warnings,     \* symbols reported with "Warning: No data found"
    raised,       \* the exception that has left the entry function, or "none"
    saved,        \* the artifacts written by main
    news_df,      \* the news table object handed to download_articles
    articles,     \* download_articles: the texts collected so far
    attempt,      \* scrape_article: the loop variable of the retry loop
    response,     \* scrape_article: the page of the last 200 response
    resp,         \* per row, what each requests.get of that row yielded
    passed,       \* the content of news_df when download_articles was called
    returned,     \* the object download_articles returned, or "none"
    events,       \* the requests.get and sleep calls so far, in order
    outstanding,  \* the requests sent and not yet answered
    net,          \* what a requests.get may yield in this run
    web,          \* which pages the web may serve in this run (see Served)
    dataset,      \* the dataset file under test: [found, rows]
    df,           \* test_dataset_schema_validation: the table loaded
    failure_cases, \* the failure cases of the SchemaErrors raised
    verdict       \* how the test ended: "running", "passed" or the failure

priceVars == <<all_symbols, all_data, prices_df, fetchLog, warnings>>
articleVars == <<news_df, articles, attempt, response, resp, passed, returned, events,
                 outstanding>>
envVars == <<entry, exists, csv, net, web, dataset>>
testVars == <<df, failure_cases, verdict>>

vars == <<entry, pc, exists, csv, symbols, all_symbols, all_data, prices_df,
          fetchLog, warnings, raised, saved, news_df, articles, attempt,
          response, resp, passed, returned, events, outstanding, net, web, dataset,
          df, failure_cases, verdict>>

-----------------------------------------------------------------------------
(* Bounds *)

MaxSymbols == 2      \* requested symbols per price batch
MaxBars == 2         \* trading days a symbol's history may cover

-----------------------------------------------------------------------------
(* Generic helpers *)

Range(s) == {s[i] : i \in 1..Len(s)}

RECURSIVE SeqsUpTo(_, _)
SeqsUpTo(S, n) ==
    IF n = 0 THEN {<<>>}
    ELSE LET shorter == SeqsUpTo(S, n - 1)
         IN  shorter \cup {Append(s, x) : s \in {t \in shorter : Len(t) = n - 1}, x \in S}

RECURSIVE Orderings(_)
Orderings(S) ==
    IF S = {} THEN {<<>>}
    ELSE UNION {{<<x>> \o t : t \in Orderings(S \ {x})} : x \in S}

RECURSIVE Concat(_)
Concat(frames) ==
    IF frames = <<>> THEN <<>> ELSE Head(frames) \o Concat(Tail(frames))

Count(s, x) == Cardinality({i \in 1..Len(s) : s[i] = x})

-----------------------------------------------------------------------------
(* download_historical_prices *)

GSPC == "^GSPC"
SP500 == "s&p"
Tickers == {"AAPL", "MSFT", GSPC}

\* str ordering of the symbol labels, as sort_values compares them
\* ('AAPL' < 'MSFT' < 's&p': upper-case letters sort before lower-case ones).
SymRank(s) == CASE s = "AAPL" -> 1 [] s = "MSFT" -> 2 [] s = SP500 -> 3 [] OTHER -> 4

Days == 1..MaxBars

\* What one ticker.history call may yield: bars on a non-empty set of days,
\* an empty frame, or an exception.
HistoryOutcomes ==
    {[bars |-> d, error |-> FALSE] : d \in SUBSET Days}
        \cup {[bars |-> {}, error |-> TRUE]}

Label(symbol) == IF symbol = GSPC THEN SP500 ELSE symbol

RowBefore(a, b) ==
    \/ a.date < b.date
    \/ a.date = b.date /\ SymRank(a.symbol) < SymRank(b.symbol)

RECURSIVE SortPrices(_)
SortPrices(rows) ==
    IF rows = {} THEN <<>>
    ELSE LET first == CHOOSE r \in rows : \A q \in rows : q = r \/ ~RowBefore(q, r)
         IN  <<first>> \o SortPrices(rows \ {first})

\* The normalised frame of one symbol: its bars, labelled, in date order.
Frame(symbol, bars) ==
    SortPrices({[date |-> d, symbol |-> Label(symbol)] : d \in bars})

\* all_data after one loop iteration (lines 56-88).
CollectSkippingNothing(data, symbol, out) ==
    IF out.error THEN data ELSE Append(data, Frame(symbol, out.bars))

Collect(data, symbol, out) ==
    IF out.error \/ out.bars = {} THEN data
    ELSE Append(data, Frame(symbol, out.bars))

\* pd.concat(all_data).sort_values(['date', 'symbol']) (lines 94-97): rows
\* that agree on both keys are equal rows here, so any sort gives one result.
RECURSIVE InsertRow(_, _)
InsertRow(sorted, r) ==
    IF sorted = <<>> THEN <<r>>
    ELSE IF RowBefore(r, Head(sorted)) THEN <<r>> \o sorted
    ELSE <<Head(sorted)>> \o InsertRow(Tail(sorted), r)

RECURSIVE SortValues(_)
SortValues(rows) ==
    IF rows = <<>> THEN <<>>
    ELSE InsertRow(SortValues(Tail(rows)), Head(rows))

\* Where control goes when a function called by main returns.
Return(next) == IF entry = "main" THEN next ELSE "done"

PricesFetch ==
    /\ pc = "prices_loop"
    /\ Len(fetchLog) < Len(all_symbols)
    /\ LET symbol == all_symbols[Len(fetchLog) + 1]
       IN  \E out \in HistoryOutcomes :
              /\ fetchLog' = Append(fetchLog,
                                    [symbol |-> symbol, bars |-> out.bars,
                                     error |-> out.error])
              /\ all_data' = Collect(all_data, symbol, out)
              /\ warnings' = IF ~out.error /\ out.bars = {}
                             THEN warnings \cup {symbol} ELSE warnings
    /\ UNCHANGED <<envVars, testVars, articleVars, pc, symbols, all_symbols, prices_df,
                   raised, saved>>

PricesFinish ==
    /\ pc = "prices_loop"
    /\ Len(fetchLog) = Len(all_symbols)
    /\ IF all_data = <<>>
       THEN /\ raised' = "ValueError"
            /\ pc' = "done"
            /\ UNCHANGED prices_df
       ELSE /\ prices_df' = SortValues(Concat(all_data))
            /\ pc' = Return("validate_prices")
            /\ UNCHANGED raised
    /\ UNCHANGED <<envVars, testVars, articleVars, symbols, all_symbols, all_data,
                   fetchLog, warnings, saved>>

PricesCall ==
    /\ pc = "call_prices"
    /\ all_symbols' \in {order \o <<GSPC>> : order \in Orderings(Range(symbols))}
    /\ all_data' = <<>>
    /\ pc' = "prices_loop"
    /\ UNCHANGED <<envVars, testVars, articleVars, symbols, prices_df, fetchLog, warnings,
                   raised, saved>>

NextPrices == PricesCall \/ PricesFetch \/ PricesFinish

-----------------------------------------------------------------------------
(* Text: str methods used by the article fetcher *)

Chars(s) == [i \in 1..Len(s) |-> SubSeq(s, i, i)]

UpperLetters == Chars("ABCDEFGHIJKLMNOPQRSTUVWXYZ")
LowerLetters == Chars("abcdefghijklmnopqrstuvwxyz")

LowerChar(c) ==
    IF \E i \in 1..Len(UpperLetters) : UpperLetters[i] = c
    THEN LowerLetters[CHOOSE i \in 1..Len(UpperLetters) : UpperLetters[i] = c]
    ELSE c

\* str.lower()
Lower(t) == [i \in 1..Len(t) |-> LowerChar(t[i])]

\* needle in hay
Contains(hay, needle) ==
    \E k \in 0..(Len(hay) - Len(needle)) :
        SubSeq(hay, k + 1, k + Len(needle)) = needle

IsSpace(c) == c = " "

\* str.strip()
RECURSIVE LStrip(_)
LStrip(t) ==
    IF t # <<>> /\ IsSpace(Head(t)) THEN LStrip(Tail(t)) ELSE t

RECURSIVE RStrip(_)
RStrip(t) ==
    IF t # <<>> /\ IsSpace(t[Len(t)]) THEN RStrip(SubSeq(t, 1, Len(t) - 1)) ELSE t

Strip(t) == RStrip(LStrip(t))

\* str.split(): the maximal runs of non-space characters
RECURSIVE Split(_)
Split(t) ==
    LET s == LStrip(t)
    IN  IF s = <<>> THEN <<>>
        ELSE LET spaces == {i \in 1..Len(s) : IsSpace(s[i])}
                 stop == IF spaces = {} THEN Len(s) + 1
                         ELSE CHOOSE i \in spaces : \A j \in spaces : i <= j
             IN  <<SubSeq(s, 1, stop - 1)>> \o Split(SubSeq(s, stop, Len(s)))

\* ' '.join(parts)
RECURSIVE Join(_)
Join(parts) ==
    IF parts = <<>> THEN <<>>
    ELSE IF Len(parts) = 1 THEN parts[1]
    ELSE parts[1] \o <<" ">> \o Join(Tail(parts))

-----------------------------------------------------------------------------
(* scrape_article: text extraction *)

MaxChars == 10000

NoElement == "None"

\* class-name fragments of strategy 2, in the order the code tries them
ContentClasses ==
    <<Chars("article-body"), Chars("article-content"), Chars("entry-content"),
      Chars("post-content"), Chars("content-body")>>

\* element.get_text(separator=' ', strip=True) of an element holding one
\* text node: the node is stripped, and dropped when nothing is left.
GetText(text) == Strip(text)

\* soup.find('div', class_=lambda x: x and class_name in x.lower())
MatchesCaseSensitive(div, class_name) == Contains(Chars(div.class), class_name)

Matches(div, class_name) == Contains(Lower(Chars(div.class)), class_name)

FindDiv(page, class_name) ==
    LET hits == {i \in 1..Len(page.divs) : Matches(page.divs[i], class_name)}
    IN  IF hits = {} THEN 0 ELSE CHOOSE i \in hits : \A j \in hits : i <= j

\* Strategy 1 (lines 146-148)
ArticleStrategy(page) ==
    IF page.article # NoElement THEN GetText(Chars(page.article)) ELSE <<>>

\* Strategy 2 (lines 151-157): the first class name that some div carries
\* decides, and the loop stops at it whatever text that div holds.
ClassStrategy(page) ==
    LET found == {c \in 1..Len(ContentClasses) : FindDiv(page, ContentClasses[c]) # 0}
    IN  IF found = {} THEN <<>>
        ELSE LET c == CHOOSE c \in found : \A d \in found : c <= d
             IN  GetText(Chars(page.divs[FindDiv(page, ContentClasses[c])].text))

\* Strategy 3 (lines 160-163)
ParagraphStrategy(page) ==
    Join([i \in 1..Len(page.paragraphs) |-> Strip(Chars(page.paragraphs[i]))])

\* Lines 143-163: a later strategy runs whenever article_text is still empty.
Extract(page) ==
    IF ArticleStrategy(page) # <<>> THEN ArticleStrategy(page)
    ELSE IF ClassStrategy(page) # <<>> THEN ClassStrategy(page)
    ELSE ParagraphStrategy(page)

\* Lines 166-168
Clean(text) ==
    LET normal == Join(Split(text))
    IN  SubSeq(normal, 1, IF Len(normal) < MaxChars THEN Len(normal) ELSE MaxChars)

ArticleText(page) == Clean(Extract(page))

-----------------------------------------------------------------------------
(* download_articles and scrape_article *)

Attempts == 3
Timeout == 10

Files == {"analyst_ratings.csv", "headlines.csv"}
RequiredCols == {"id", "headline", "URL", "publisher", "date", "symbol"}

Denylisted == Chars("gurufocus")

\* Line 199: 'gurufocus' in url.lower()
BlockedCaseSensitive(url) == Contains(Chars(url), Denylisted)

Blocked(url) == Contains(Lower(Chars(url)), Denylisted)

\* Line 126: for attempt in range(3) has no further iteration after this one
LastAttemptOffByOne(n) == n >= Attempts

LastAttempt(n) == n + 1 >= Attempts

\* Line 170: except Exception
CaughtRequestErrorsOnly(exc) == exc \in {"Timeout", "ConnectionError"}

Caught(exc) == TRUE

NoPage == [article |-> NoElement, divs |-> <<>>, paragraphs |-> <<>>]

MaxDivs == 2         \* div elements of a page

\* The div elements a page may hold: a class the fragments do not match, one
\* the first fragment matches only without regard to case, and one a later
\* fragment matches; each with text or with white space only.
Divs ==
    {[class |-> "sidebar", text |-> "s"], [class |-> "sidebar", text |-> " "],
     [class |-> "Article-Body main", text |-> " b"],
     [class |-> "Article-Body main", text |-> " "],
     [class |-> "entry-content", text |-> "e "],
     [class |-> "entry-content", text |-> ""]}

Pages ==
    {[article |-> a, divs |-> d, paragraphs |-> p] :
        a \in {NoElement, "  ", " a  a "},
        d \in SeqsUpTo(Divs, MaxDivs),
        p \in SeqsUpTo({"", " p "}, 2)}

PlainPages ==
    {[article |-> "a", divs |-> <<>>, paragraphs |-> <<>>], NoPage}

Served(w) ==
    IF w = "any" THEN Pages
    ELSE IF w = "plain" THEN PlainPages
    ELSE {[article |-> "a", divs |-> <<>>, paragraphs |-> <<>>]}

\* def download_articles(news_df, delay=1); merge_datasets passes delay=1
delay == 1

\* sleep(1) of the retry loop (line 130)
RetryWait == 1

GetEvent(k) == [op |-> "get", row |-> k, arg |-> Timeout]
Sleep(k, secs) == [op |-> "sleep", row |-> k, arg |-> secs]

\* Line 130: sleep(1) after every answer that is not a 200
RetrySleepSkipped(k) == <<>>

RetrySleep(k) == <<Sleep(k, RetryWait)>>

\* Line 207: sleep(delay) after scrape_article has returned
RateLimit(k) == <<Sleep(k, delay)>>

ArticlesIter ==
    /\ pc = "articles_loop"
    /\ Len(articles) < Len(news_df.rows)
    /\ LET url == news_df.rows[Len(articles) + 1].URL
       IN  IF Blocked(url)
           THEN /\ articles' = Append(articles, <<>>)
                /\ UNCHANGED <<pc, attempt>>
           ELSE /\ pc' = "get"
                /\ attempt' = 0
                /\ UNCHANGED articles
    /\ resp' = Append(resp, <<>>)
    /\ UNCHANGED <<envVars, testVars, priceVars, symbols, raised, saved, news_df, response,
                   passed, returned, events, outstanding>>

\* requests.get(url, headers=headers, timeout=10) is called (line 127); the
\* call blocks until the response or the exception arrives (see Get).
Request ==
    /\ pc = "get"
    /\ pc' = "await"
    /\ events' = Append(events, GetEvent(Len(resp)))
    /\ outstanding' = outstanding + 1
    /\ UNCHANGED <<envVars, testVars, priceVars, symbols, raised, saved, news_df, articles,
                   attempt, response, resp, passed, returned>>

\* The rest of one iteration of the retry loop (lines 127-130) and, when it
\* is the last one, the return of scrape_article to download_articles
\* (lines 203-207).
Get ==
    /\ pc = "await"
    /\ outstanding' = outstanding - 1
    /\ \E out \in net :
          \E page \in IF out.status = 200 THEN Served(web) ELSE {NoPage} :
             /\ resp' = [resp EXCEPT ![Len(resp)] =
                            Append(@, [status |-> out.status, exc |-> out.exc,
                                       timeout |-> Timeout, page |-> page])]
             /\ IF out.exc # "none"
                THEN IF Caught(out.exc)
                     THEN /\ articles' = Append(articles, <<>>)
                          /\ events' = events \o RateLimit(Len(resp))
                          /\ pc' = "articles_loop"
                          /\ UNCHANGED <<raised, attempt, response>>
                     ELSE /\ raised' = out.exc
                          /\ pc' = "done"
                          /\ UNCHANGED <<articles, attempt, response, events>>
                ELSE IF out.status = 200
                THEN /\ response' = page
                     /\ pc' = "parse"
                     /\ UNCHANGED <<raised, attempt, articles, events>>
                ELSE IF LastAttempt(attempt)
                THEN /\ articles' = Append(articles, <<>>)
                     /\ events' = events \o RetrySleep(Len(resp)) \o RateLimit(Len(resp))
                     /\ pc' = "articles_loop"
                     /\ UNCHANGED <<raised, attempt, response>>
                ELSE /\ attempt' = attempt + 1
                     /\ events' = events \o RetrySleep(Len(resp))
                     /\ pc' = "get"
                     /\ UNCHANGED <<raised, articles, response>>
    /\ UNCHANGED <<envVars, testVars, priceVars, symbols, saved, news_df, passed, returned>>

\* Lines 136-168, and the return to download_articles (lines 203-207)
Parse ==
    /\ pc = "parse"
    /\ articles' = Append(articles, ArticleText(response))
    /\ events' = events \o RateLimit(Len(resp))
    /\ pc' = "articles_loop"
    /\ UNCHANGED <<envVars, testVars, priceVars, symbols, raised, saved, news_df, attempt,
                   response, resp, passed, returned, outstanding>>

\* news_df['article'] = articles (line 209): the column is set on the object
\* the caller passed, and line 215 returns that same object.
WithArticles(table, texts) ==
    [cols |-> table.cols \cup {"article"},
     rows |-> [i \in 1..Len(table.rows) |-> [article |-> texts[i]] @@ table.rows[i]]]

ArticlesReturn ==
    /\ pc = "articles_loop"
    /\ Len(articles) = Len(news_df.rows)
    /\ news_df' = WithArticles(news_df, articles)
    /\ returned' = "news_df"
    /\ pc' = Return("validate_news")
    /\ UNCHANGED <<envVars, testVars, priceVars, symbols, raised, saved, articles, attempt,
                   response, resp, passed, events, outstanding>>

NextArticles == ArticlesIter \/ Request \/ Get \/ Parse \/ ArticlesReturn

-----------------------------------------------------------------------------
(* merge_datasets *)

\* all_news_df['id'] = range(1, len(all_news_df) + 1) (line 248)
ReassignKeepingIds(rows) == rows

Reassign(rows) == [i \in 1..Len(rows) |-> [rows[i] EXCEPT !.id = i]]

\* sort_values('date') (line 254) runs the default kind='quicksort', which
\* is not a stable sort: rows of one date may come out in any order.
RECURSIVE DateOrders(_, _)
DateOrders(rows, S) ==
    IF S = {} THEN {<<>>}
    ELSE LET first == {i \in S : \A j \in S : rows[i].date <= rows[j].date}
         IN  UNION {{<<rows[i]>> \o t : t \in DateOrders(rows, S \ {i})} : i \in first}

SortByDate(rows) == DateOrders(rows, 1..Len(rows))

MergeDatasets ==
    /\ pc = "merge"
    /\ LET a == csv["analyst_ratings.csv"]
           h == csv["headlines.csv"]
       IN  IF \E f \in Files : ~exists[f]
           THEN /\ raised' = "FileNotFoundError"
                /\ pc' = "done"
                /\ UNCHANGED <<news_df, articles, resp, passed>>
           ELSE IF ~(RequiredCols \subseteq a.cols /\ RequiredCols \subseteq h.cols)
           THEN /\ raised' = "KeyError"
                /\ pc' = "done"
                /\ UNCHANGED <<news_df, articles, resp, passed>>
           ELSE /\ \E sorted \in SortByDate(Reassign(a.rows \o h.rows)) :
                      /\ news_df' = [cols |-> RequiredCols, rows |-> sorted]
                      /\ passed' = [cols |-> RequiredCols, rows |-> sorted]
                /\ articles' = <<>>
                /\ resp' = <<>>
                /\ pc' = "articles_loop"
                /\ UNCHANGED raised
    /\ UNCHANGED <<envVars, testVars, priceVars, symbols, saved, attempt, response,
                   returned, events, outstanding>>

NextMerge == MergeDatasets \/ NextArticles

-----------------------------------------------------------------------------
(* main *)

Null == "NaN"

\* Lines 290-298
MainCheckFiles ==
    /\ pc = "main_start"
    /\ pc' = IF \E f \in Files : ~exists[f] THEN "done" ELSE "main_read"
    /\ UNCHANGED <<envVars, testVars, priceVars, articleVars, symbols, raised, saved>>

\* Lines 306-312
MainSymbols ==
    /\ pc = "main_read"
    /\ IF \E f \in Files : "symbol" \notin csv[f].cols
       THEN /\ raised' = "KeyError"
            /\ pc' = "done"
            /\ UNCHANGED symbols
       ELSE /\ symbols' \in Orderings(
                    {r.symbol : r \in UNION {Range(csv[f].rows) : f \in Files}}
                        \ {Null})
            /\ pc' = "call_prices"
            /\ UNCHANGED raised
    /\ UNCHANGED <<envVars, testVars, priceVars, articleVars, saved>>

\* Lines 320-329: a schema violation is printed, and the table is saved.
MainSavePrices ==
    /\ pc = "validate_prices"
    /\ saved' = saved \cup {"historical_prices"}
    /\ pc' = "merge"
    /\ UNCHANGED <<envVars, testVars, priceVars, articleVars, symbols, raised>>

\* Lines 339-348
MainSaveNews ==
    /\ pc = "validate_news"
    /\ saved' = saved \cup {"all_news"}
    /\ pc' = "done"
    /\ UNCHANGED <<envVars, testVars, priceVars, articleVars, symbols, raised>>

NextMain == MainCheckFiles \/ MainSymbols \/ MainSavePrices \/ MainSaveNews

Next == NextMain \/ NextPrices \/ NextMerge

-----------------------------------------------------------------------------
(* Schema validation: dataset_schema.py, utils.py, test_dataset_schema.py *)

\* trade_log_schema: the columns that carry a value check, in schema order
trade_log_schema ==
    <<[column |-> "trade_type", check |-> "isin(['Buy', 'Sell'])"],
      [column |-> "shares", check |-> "greater_than_or_equal_to(0)"],
      [column |-> "price", check |-> "greater_than_or_equal_to(0)"]>>

\* pa.Check.isin(["Buy", "Sell"]) and pa.Check.ge(0)
CheckHolds(check, value) ==
    IF check = "isin(['Buy', 'Sell'])" THEN value \in {"Buy", "Sell"}
    ELSE value >= 0

\* The failure cases of one column's check: one per failing row, with the
\* row's index label (read_csv numbers the rows from 0).
ColumnFailures(c, rows) ==
    {[column |-> c.column, index |-> i - 1, failure_case |-> rows[i][c.column],
      check |-> c.check] :
        i \in {j \in 1..Len(rows) : ~CheckHolds(c.check, rows[j][c.column])}}

\* schema.validate(df, lazy=False) stops at the first check that fails.
ValidateEager(schema, rows) ==
    LET failing == {k \in 1..Len(schema) : ColumnFailures(schema[k], rows) # {}}
    IN  IF failing = {} THEN {}
        ELSE ColumnFailures(schema[CHOOSE k \in failing : \A l \in failing : k <= l],
                            rows)

\* schema.validate(df, lazy=True) (utils.py line 6, test line 52): every
\* check runs, and the SchemaErrors raised carries all failure cases.
Validate(schema, rows) ==
    UNION {ColumnFailures(schema[k], rows) : k \in 1..Len(schema)}

\* Lines 46-49 of the test, with load_and_validate_csv: only
\* FileNotFoundError is handled there, a SchemaErrors leaves the test.
TestLoad ==
    /\ pc = "test_load"
    /\ IF ~dataset.found
       THEN /\ verdict' = "File not found"
            /\ pc' = "done"
            /\ UNCHANGED <<df, failure_cases, raised>>
       ELSE IF Validate(trade_log_schema, dataset.rows) # {}
       THEN /\ raised' = "SchemaErrors"
            /\ failure_cases' = Validate(trade_log_schema, dataset.rows)
            /\ verdict' = "SchemaErrors"
            /\ pc' = "done"
            /\ UNCHANGED df
       ELSE /\ df' = dataset.rows
            /\ pc' = "test_validate"
            /\ UNCHANGED <<failure_cases, verdict, raised>>
    /\ UNCHANGED <<envVars, priceVars, articleVars, symbols, saved>>

\* Lines 51-63 of the test
TestValidate ==
    /\ pc = "test_validate"
    /\ IF Validate(trade_log_schema, df) # {}
       THEN /\ failure_cases' = Validate(trade_log_schema, df)
            /\ verdict' = "Schema validation failed"
       ELSE /\ verdict' = "passed"
            /\ UNCHANGED failure_cases
    /\ pc' = "done"
    /\ UNCHANGED <<envVars, priceVars, articleVars, symbols, saved, raised, df>>

NextTest == TestLoad \/ TestValidate

-----------------------------------------------------------------------------
(* Initial states *)

MaxRows == 2         \* rows of a news stub table
MaxTrades == 2       \* rows of a trade_log table
NoTable == [cols |-> {}, rows |-> <<>>]

PlainURL == "http://www.benzinga.com/news/1"
URLs ==
    {PlainURL,
     "http://www.gurufocus.com/news/2",
     "HTTP://WWW.GuruFocus.COM/news/3",
     "http://www.guru-focus.com/news/4"}

\* What one requests.get may yield: a response with a status code, or an
\* exception (status 0 stands for no response).
Responses ==
    {[status |-> 200, exc |-> "none"], [status |-> 403, exc |-> "none"],
     [status |-> 0, exc |-> "Timeout"], [status |-> 0, exc |-> "ConnectionError"],
     [status |-> 0, exc |-> "UnicodeError"]}

StubRow(id, date, url, symbol) ==
    [id |-> id, date |-> date, URL |-> url, symbol |-> symbol]

PriceIdle ==
    /\ symbols = <<>>
    /\ all_symbols = <<>>
    /\ all_data = <<>>
    /\ prices_df = <<>>
    /\ fetchLog = <<>>
    /\ warnings = {}

TestIdle ==
    /\ dataset = [found |-> FALSE, rows |-> <<>>]
    /\ df = <<>>
    /\ failure_cases = {}
    /\ verdict = "running"

\* No call of download_articles has run yet; the table it will be handed,
\* if it is the entry function, is the one news_df holds.
ArticleIdle ==
    /\ TestIdle
    /\ articles = <<>>
    /\ attempt = 0
    /\ response = NoPage
    /\ resp = <<>>
    /\ passed = news_df
    /\ returned = "none"
    /\ events = <<>>
    /\ outstanding = 0

InitPrices ==
    /\ entry = "download_historical_prices"
    /\ pc = "call_prices"
    /\ exists = [f \in Files |-> FALSE]
    /\ csv = [f \in Files |-> NoTable]
    /\ symbols \in SeqsUpTo(Tickers, MaxSymbols)
    /\ all_symbols = <<>>
    /\ all_data = <<>>
    /\ prices_df = <<>>
    /\ fetchLog = <<>>
    /\ warnings = {}
    /\ raised = "none"
    /\ saved = {}
    /\ news_df = NoTable
    /\ ArticleIdle
    /\ net = Responses
    /\ web = "plain"

SpecPrices == InitPrices /\ [][NextPrices]_vars

\* download_articles on a table of up to MaxRows rows
InitArticles ==
    /\ entry = "download_articles"
    /\ pc = "articles_loop"
    /\ exists = [f \in Files |-> FALSE]
    /\ csv = [f \in Files |-> NoTable]
    /\ PriceIdle
    /\ raised = "none"
    /\ saved = {}
    /\ \E urls \in SeqsUpTo(URLs, MaxRows) :
          news_df = [cols |-> RequiredCols,
                     rows |-> [i \in 1..Len(urls) |-> StubRow(i, 1, urls[i], "AAPL")]]
    /\ ArticleIdle
    /\ net = Responses
    /\ web = "plain"

SpecArticles == InitArticles /\ [][NextArticles]_vars

\* download_articles on one row, the web serving any page
InitScrape ==
    /\ entry = "download_articles"
    /\ pc = "articles_loop"
    /\ exists = [f \in Files |-> FALSE]
    /\ csv = [f \in Files |-> NoTable]
    /\ PriceIdle
    /\ raised = "none"
    /\ saved = {}
    /\ news_df = [cols |-> RequiredCols, rows |-> <<StubRow(1, 1, PlainURL, "AAPL")>>]
    /\ ArticleIdle
    /\ net = {[status |-> 200, exc |-> "none"], [status |-> 403, exc |-> "none"]}
    /\ web = "any"

SpecScrape == InitScrape /\ [][NextArticles]_vars

Dates == {1, 2}

\* The id column of a stub: sequential from 1, or the same id in every row
StubIds(n) == {[i \in 1..n |-> i], [i \in 1..n |-> 1]}

MergeStubs(url) ==
    UNION {{[cols |-> RequiredCols,
             rows |-> [i \in 1..n |-> StubRow(ids[i], dates[i], url, "AAPL")]] :
               ids \in StubIds(n), dates \in [1..n -> Dates]} : n \in 0..MaxRows}

InitMerge ==
    /\ entry = "merge_datasets"
    /\ pc = "merge"
    /\ exists = [f \in Files |-> TRUE]
    /\ \E a \in MergeStubs(PlainURL), h \in MergeStubs("http://www.gurufocus.com/news/2") :
          csv = [f \in Files |-> IF f = "analyst_ratings.csv" THEN a ELSE h]
    /\ PriceIdle
    /\ raised = "none"
    /\ saved = {}
    /\ news_df = NoTable
    /\ ArticleIdle
    /\ net = {[status |-> 200, exc |-> "none"]}
    /\ web = "one"

SpecMerge == InitMerge /\ [][NextMerge]_vars

ColumnSets == {RequiredCols} \cup {RequiredCols \ {c} : c \in RequiredCols}

MainStubs ==
    {[cols |-> c, rows |-> r] :
        c \in ColumnSets,
        r \in {<<>>} \cup {<<StubRow(7, 1, u, s)>> :
                              u \in {PlainURL, "http://www.gurufocus.com/news/2"},
                              s \in {"AAPL", Null}}}

InitMain ==
    /\ entry = "main"
    /\ pc = "main_start"
    /\ exists \in [Files -> BOOLEAN]
    /\ csv \in [Files -> MainStubs]
    /\ \A f \in Files : ~exists[f] => csv[f] = [cols |-> RequiredCols, rows |-> <<>>]
    /\ PriceIdle
    /\ raised = "none"
    /\ saved = {}
    /\ news_df = NoTable
    /\ ArticleIdle
    /\ net = {[status |-> 200, exc |-> "none"], [status |-> 403, exc |-> "none"],
              [status |-> 0, exc |-> "Timeout"]}
    /\ web = "plain"

Spec == InitMain /\ [][Next]_vars

TradeRows ==
    [trade_type : {"Buy", "Hold"}, shares : {-5, 10}, price : {-1, 2}]

InitTest ==
    /\ entry = "test_dataset_schema_validation"
    /\ pc = "test_load"
    /\ exists = [f \in Files |-> FALSE]
    /\ csv = [f \in Files |-> NoTable]
    /\ PriceIdle
    /\ raised = "none"
    /\ saved = {}
    /\ news_df = NoTable
    /\ articles = <<>>
    /\ attempt = 0
    /\ response = NoPage
    /\ resp = <<>>
    /\ passed = NoTable
    /\ returned = "none"
    /\ events = <<>>
    /\ outstanding = 0
    /\ net = {}
    /\ web = "plain"
    /\ dataset \in {[found |-> FALSE, rows |-> <<>>]}
                       \cup {[found |-> TRUE, rows |-> r] : r \in SeqsUpTo(TradeRows, MaxTrades)}
    /\ df = <<>>
    /\ failure_cases = {}
    /\ verdict = "running"

SpecTest == InitTest /\ [][NextTest]_vars

-----------------------------------------------------------------------------
(* Properties of the article fetcher *)

\* The requests.get calls made for row k so far
Gets(k) == Len(resp[k])

\* Row k has its article text recorded
Recorded(k) == k \in 1..Len(articles)

Failed(r) == r.exc # "none"

AllNon200(k) ==
    /\ resp[k] # <<>>
    /\ \A j \in 1..Gets(k) : ~Failed(resp[k][j]) /\ resp[k][j].status # 200

\* C1: a scrape_article call whose every GET answers with a non-200 status
\* makes exactly 3 GETs, never a fourth, and returns the empty string
\* without an exception leaving it.
C1_ThreeAttemptsThenEmpty ==
    \A k \in 1..Len(resp) :
        AllNon200(k) =>
            /\ Gets(k) <= 3
            /\ raised = "none"
            /\ Recorded(k) <=> Gets(k) = 3
            /\ Recorded(k) => articles[k] = <<>>

C1_Witness ==
    \E k \in 1..Len(resp) :
        /\ AllNon200(k) /\ Recorded(k) /\ Gets(k) = 3 /\ articles[k] = <<>>
        /\ \A j \in 1..3 : resp[k][j].status = 403

\* C2: whatever each GET yields, a scrape_article call makes at most 3 GETs,
\* each with timeout=10, and returns a string, empty when the last GET did
\* not answer 200; a call still requesting has made fewer than 3 GETs; no
\* exception leaves it, and at the end of download_articles every row of
\* the table has its article text.
C2_BoundedAndNeverRaises ==
    /\ raised = "none"
    /\ \A k \in 1..Len(resp) :
          /\ Gets(k) <= 3
          /\ \A j \in 1..Gets(k) : resp[k][j].timeout = 10
          /\ \A j \in 1..(Gets(k) - 1) :
                ~Failed(resp[k][j]) /\ resp[k][j].status # 200
          /\ Recorded(k) =>
                /\ articles[k] \in Seq({" "} \cup Range(LowerLetters))
                /\ (Gets(k) > 0 /\ (Failed(resp[k][Gets(k)])
                                      \/ resp[k][Gets(k)].status # 200))
                      => articles[k] = <<>>
    /\ pc = "get" => Gets(Len(resp)) < 3 /\ ~Recorded(Len(resp))
    /\ pc = "parse" => resp[Len(resp)][Gets(Len(resp))].status = 200
    /\ pc = "done" =>
          /\ Len(articles) = Len(news_df.rows)
          /\ \A k \in 1..Len(articles) : news_df.rows[k].article = articles[k]

C2_Witness ==
    /\ pc = "done"
    /\ Len(articles) = MaxRows
    /\ resp[1] # <<>> /\ resp[1][Gets(1)].exc = "UnicodeError"
    /\ resp[2] # <<>> /\ resp[2][Gets(2)].status = 200 /\ Gets(2) = 3
    /\ articles[2] # <<>>

\* The URL holds 'gurufocus' at some offset, letter case set aside
OnDenylist(url) ==
    LET u == Chars(url)
    IN  \E offset \in 0..(Len(u) - Len(Denylisted)) :
           \A j \in 1..Len(Denylisted) : LowerChar(u[offset + j]) = Denylisted[j]

\* C3: for a row whose URL is on the denylist, no GET is ever issued and
\* scrape_article is not entered; the row's article is the empty string, in
\* the list collected and in the table returned.
DenylistedURLs == {url \in URLs : OnDenylist(url)}

C3_DenylistSkipsWithoutRequest ==
    \A k \in 1..Len(resp) :
        news_df.rows[k].URL \in DenylistedURLs =>
            /\ resp[k] = <<>>
            /\ Recorded(k)
            /\ articles[k] = <<>>
            /\ pc = "done" => news_df.rows[k].article = <<>>

C3_Witness ==
    /\ pc = "done"
    /\ \E k \in 1..Len(resp) :
          /\ news_df.rows[k].URL = "HTTP://WWW.GuruFocus.COM/news/3"
          /\ news_df.rows[k].article = <<>>
          /\ resp[k] = <<>>
    /\ \E k \in 1..Len(resp) :
          /\ news_df.rows[k].URL = "http://www.guru-focus.com/news/4"
          /\ resp[k] # <<>>

-----------------------------------------------------------------------------
(* Properties of the price fetcher *)

Produced(k) == ~fetchLog[k].error /\ fetchLog[k].bars # {}

PriceRows == [date : Days, symbol : {Label(t) : t \in Tickers}]

\* C4: download_historical_prices fetches every requested symbol and the
\* index proxy whatever the earlier fetches yielded, raises exactly when no
\* fetch produced bars, and otherwise returns, each bar of each producing
\* fetch being one row of the result and the result holding no other row.
C4_RaisesIffNoSymbolProduced ==
    pc = "done" =>
        /\ Len(fetchLog) = Len(all_symbols)
        /\ \A k \in 1..Len(fetchLog) : fetchLog[k].symbol = all_symbols[k]
        /\ Range(all_symbols) = Range(symbols) \cup {GSPC}
        /\ raised \in {"none", "ValueError"}
        /\ raised = "ValueError" <=> ~\E k \in 1..Len(fetchLog) : Produced(k)
        /\ raised = "none" =>
              \A r \in PriceRows :
                  Count(prices_df, r) =
                      Cardinality({k \in 1..Len(fetchLog) :
                                      /\ Produced(k)
                                      /\ Label(fetchLog[k].symbol) = r.symbol
                                      /\ r.date \in fetchLog[k].bars})
        /\ raised = "ValueError" => prices_df = <<>>

C4_Witness ==
    /\ pc = "done"
    /\ raised = "none"
    /\ Len(fetchLog) = 3
    /\ fetchLog[1].error
    /\ ~fetchLog[2].error /\ fetchLog[2].bars = {}
    /\ fetchLog[3].bars = Days
    /\ Len(prices_df) = MaxBars

-----------------------------------------------------------------------------
(* Properties of the dataset merger *)

FirstSource == csv["analyst_ratings.csv"].rows
SecondSource == csv["headlines.csv"].rows

Merged == pc # "merge" /\ raised = "none"

\* C5: the merged table of a first source of n rows and a second source of
\* m rows has n+m rows, and its id values are the integers 1..n+m, each once,
\* whatever ids the sources carried.
C5_DenseSequentialIds ==
    Merged =>
        LET total == Len(FirstSource) + Len(SecondSource)
        IN  /\ Len(news_df.rows) = total
            /\ {news_df.rows[i].id : i \in 1..Len(news_df.rows)} = 1..total
            /\ \A i, j \in 1..Len(news_df.rows) :
                  news_df.rows[i].id = news_df.rows[j].id => i = j

C5_Witness ==
    /\ pc = "done"
    /\ Len(FirstSource) = MaxRows
    /\ Len(SecondSource) = MaxRows
    /\ \A i \in 1..MaxRows : FirstSource[i].id = 1 /\ SecondSource[i].id = 1
    /\ news_df.rows[1].id = MaxRows + 1

\* C6: the merged table is in ascending date order, and rows of one date
\* stand in concatenation order (first-source rows before second-source
\* rows, each source in its own order). The id a row got at line 248 is its
\* position in the concatenation.
C6_SortedAndStable ==
    Merged =>
        \A i, j \in 1..Len(news_df.rows) :
            i < j =>
                /\ news_df.rows[i].date <= news_df.rows[j].date
                /\ news_df.rows[i].date = news_df.rows[j].date
                      => news_df.rows[i].id < news_df.rows[j].id

-----------------------------------------------------------------------------
(* Properties of the text extraction *)

\* The text holds the fragment at some offset, letter case set aside
HoldsIgnoringCase(text, fragment) ==
    \E offset \in 0..(Len(text) - Len(fragment)) :
        \A j \in 1..Len(fragment) : LowerChar(text[offset + j]) = fragment[j]

Least(S) == CHOOSE i \in S : \A j \in S : i <= j

Parsed(k) == Recorded(k) /\ Gets(k) > 0 /\ resp[k][Gets(k)].status = 200

ParagraphText(page) ==
    Join([i \in 1..Len(page.paragraphs) |-> Strip(Chars(page.paragraphs[i]))])

\* C7 as claimed: the article element's text is the result whenever the page
\* has an article element; else the text of the first element whose class
\* holds one of the fragments; the paragraphs only when there is neither.
C7_FirstElementWins ==
    \A k \in 1..Len(resp) :
        Parsed(k) =>
            LET page == resp[k][Gets(k)].page
                hits == {i \in 1..Len(page.divs) :
                            \E c \in 1..Len(ContentClasses) :
                                HoldsIgnoringCase(Chars(page.divs[i].class),
                                                  ContentClasses[c])}
            IN  articles[k] =
                    Clean(IF page.article # NoElement
                          THEN Strip(Chars(page.article))
                          ELSE IF hits # {}
                          THEN Strip(Chars(page.divs[Least(hits)].text))
                          ELSE ParagraphText(page))

\* C7 as amended: the first strategy that yields non-empty text wins. The
\* class strategy takes the first fragment, in list order, that the class of
\* some div holds, and the first div in document order holding it.
C7_FirstNonEmptyWins ==
    \A k \in 1..Len(resp) :
        Parsed(k) =>
            LET page == resp[k][Gets(k)].page
                a == IF page.article # NoElement
                     THEN Strip(Chars(page.article)) ELSE <<>>
                holds(c) == {i \in 1..Len(page.divs) :
                                HoldsIgnoringCase(Chars(page.divs[i].class),
                                                  ContentClasses[c])}
                held == {c \in 1..Len(ContentClasses) : holds(c) # {}}
                d == IF held = {} THEN <<>>
                     ELSE Strip(Chars(page.divs[Least(holds(Least(held)))].text))
            IN  /\ a # <<>> => articles[k] = Clean(a)
                /\ a = <<>> /\ d # <<>> => articles[k] = Clean(d)
                /\ a = <<>> /\ d = <<>> => articles[k] = Clean(ParagraphText(page))

C7_Witness ==
    \E k \in 1..Len(resp) :
        /\ Parsed(k)
        /\ resp[k][Gets(k)].page.article = "  "
        /\ resp[k][Gets(k)].page.divs =
              <<[class |-> "entry-content", text |-> "e "],
                [class |-> "Article-Body main", text |-> " b"]>>
        /\ resp[k][Gets(k)].page.paragraphs = <<" p ">>
        /\ articles[k] = <<"b">>

-----------------------------------------------------------------------------
(* Properties of main *)

Malformed(f) == exists[f] /\ ~(RequiredCols \subseteq csv[f].cols)

NoRequestIssued ==
    /\ fetchLog = <<>>
    /\ \A k \in 1..Len(resp) : resp[k] = <<>>

\* C8: in a run given a stub file that lacks a required column, no request
\* goes to the price provider and none to an article host, and the run
\* ends with the error of the missing column.
C8_MalformedInputFailsBeforeNetwork ==
    (\A f \in Files : exists[f]) /\ (\E f \in Files : Malformed(f)) =>
        /\ NoRequestIssued
        /\ pc = "done" => raised = "KeyError"

NewsInputsAvailable ==
    \A f \in Files : exists[f] /\ RequiredCols \subseteq csv[f].cols

PriceInputsAvailable ==
    \A f \in Files : exists[f] /\ "symbol" \in csv[f].cols

\* C9: at the end of a run, all_news is written whenever its inputs are
\* available, whatever became of the price batch, and historical_prices is
\* written whenever its inputs are available and some symbol produced bars.
C9_ArtifactsIndependent ==
    pc = "done" =>
        /\ NewsInputsAvailable => "all_news" \in saved
        /\ (PriceInputsAvailable /\ \E k \in 1..Len(fetchLog) : Produced(k))
              => "historical_prices" \in saved

-----------------------------------------------------------------------------
(* Properties of the schema validation *)

GE0 == "greater_than_or_equal_to(0)"

\* Every value of the table that breaks a check of trade_log_schema
Violations(rows) ==
    {[column |-> "shares", index |-> i - 1, failure_case |-> rows[i].shares,
      check |-> GE0] : i \in {j \in 1..Len(rows) : rows[j].shares < 0}}
    \cup
    {[column |-> "price", index |-> i - 1, failure_case |-> rows[i].price,
      check |-> GE0] : i \in {j \in 1..Len(rows) : rows[j].price < 0}}
    \cup
    {[column |-> "trade_type", index |-> i - 1,
      failure_case |-> rows[i].trade_type, check |-> "isin(['Buy', 'Sell'])"] :
        i \in {j \in 1..Len(rows) : rows[j].trade_type \notin {"Buy", "Sell"}}}

\* C10: a trade_log table with a negative shares value fails validation, and
\* the failure cases handed to the caller are all the violations of the
\* table, each with column, row index, value and check, the shares column
\* with the ge(0) check among them.
C10_LazyReportNamesEveryViolation ==
    (pc = "done" /\ dataset.found
        /\ \E i \in 1..Len(dataset.rows) : dataset.rows[i].shares < 0) =>
        /\ raised = "SchemaErrors"
        /\ verdict \notin {"running", "passed"}
        /\ failure_cases = Violations(dataset.rows)
        /\ \A i \in 1..Len(dataset.rows) :
              dataset.rows[i].shares < 0 =>
                  [column |-> "shares", index |-> i - 1,
                   failure_case |-> dataset.rows[i].shares, check |-> GE0]
                      \in failure_cases

C10_Witness ==
    /\ pc = "done"
    /\ Len(dataset.rows) = MaxTrades
    /\ dataset.rows[1] = [trade_type |-> "Hold", shares |-> 10, price |-> 2]
    /\ dataset.rows[2] = [trade_type |-> "Buy", shares |-> -5, price |-> -1]
    /\ Cardinality(failure_cases) = 3
    /\ [column |-> "shares", index |-> 1, failure_case |-> -5, check |-> GE0]
          \in failure_cases

-----------------------------------------------------------------------------
(* Ownership of the news table *)

\* C11: once download_articles has returned, the table object its caller
\* passed in has no article column and the rows and values it had at the
\* call, and the object returned is another one.
C11_InputTableUnchanged ==
    returned # "none" =>
        /\ "article" \notin news_df.cols
        /\ news_df = passed
        /\ returned # "news_df"

-----------------------------------------------------------------------------
(* Rate limit of the article fetcher *)

\* The positions of the requests.get calls among the events
GetsAt == {i \in 1..Len(events) : events[i].op = "get"}

\* C12: at most one request is outstanding at any time; between any two
\* requests.get calls of a download_articles run, retries of one URL or
\* requests of successive URLs alike, a sleep of the fixed delay of one
\* second has been made; a row skipped by the denylist makes no request and
\* no sleep.
C12_OneRequestAndDelayBetweenGets ==
    /\ outstanding \in {0, 1}
    /\ outstanding = 1 <=> pc = "await"
    /\ \A i, j \in GetsAt :
          i < j => \E m \in (i + 1)..(j - 1) :
                      events[m].op = "sleep" /\ events[m].arg = 1
    /\ \A m \in 1..Len(events) :
          /\ events[m].op = "sleep" => events[m].arg = 1
          /\ events[m].row \in 1..Len(resp)
          /\ news_df.rows[events[m].row].URL \notin DenylistedURLs

C12_Witness ==
    /\ pc = "done"
    /\ Len(news_df.rows) >= 2
    /\ Len(resp) >= 2 /\ Gets(1) = 2 /\ Gets(2) = 1
    /\ <<resp[1][1].status, resp[1][2].status>> = <<403, 200>>
    /\ resp[2][1].exc = "Timeout"
    /\ Len(events) >= 6
    /\ SubSeq(events, 1, 6) =
          <<GetEvent(1), Sleep(1, 1), GetEvent(1), Sleep(1, 1), GetEvent(2), Sleep(2, 1)>>

====
